---- MODULE Spec2Model ----
(***************************************************************************)
(* Model of the variable-output adaptors of the digest crate:              *)
(*   RtVariableCoreWrapper  (digest/src/core_api/rt_variable.rs)           *)
(*   CtVariableCoreWrapper  (digest/src/core_api/ct_variable.rs)           *)
(* The wrapped core T and the block buffer are collaborators.  The core    *)
(* is modelled as the free core: its state is the output size it was       *)
(* constructed with and the blocks it has been handed, in order; its       *)
(* digest is a function of that state, of the remainder it is handed at    *)
(* finalization and of the requested output length.                        *)
(***************************************************************************)
EXTENDS Integers, Sequences, FiniteSets, TLC

\* ---------------------------------------------------------------- bounds
\* T::BlockSize (bytes per block)
BlockSize == 2
\* T::MaxOutputSize
MaxOutputSize == 2
\* longest message (bytes fed between two resets) the model explores
MaxMsg == 4
\* longest message explored when two adaptors live side by side
MaxMsgClone == 2
Byte == {0, 1}
Slots == {1, 2}
BufferKinds == {"Eager", "Lazy"}

\* all byte strings of length at most n
Strings(n) == UNION {[1..l -> Byte] : l \in 0..n}

VARIABLES
    kind,       \* T::BufferKind of the wrapped algorithm
    rejected,   \* output sizes in 1..MaxOutputSize the algorithm itself rejects
    rt,         \* the runtime adaptors, by slot
    msg,        \* history: bytes fed to each adaptor since construction / reset
    nupd,       \* history: update calls on each adaptor since construction / reset,
                \* counted to two (2: two or more)
    ct,         \* the compile-time adaptor together with its driver's buffer
    ctmsg,      \* history: bytes fed to the compile-time adaptor's driver
    fork,       \* history: how many leading bytes of msg an adaptor was fed before
                \* it was cloned or made by cloning (-1: neither)
    last        \* the most recent operation and what it delivered

vars == <<kind, rejected, rt, msg, nupd, ct, ctmsg, fork, last>>

\* ------------------------------------------------ the core (collaborator)
NoCore == [size |-> 0, blocks |-> <<>>, fin |-> FALSE]

\* T::new(output_size): Result<T, InvalidOutputSize>
CoreNew(k) ==
    IF k = 0 \/ k > MaxOutputSize \/ k \in rejected
    THEN [ok |-> FALSE, core |-> NoCore]
    ELSE [ok |-> TRUE, core |-> [size |-> k, blocks |-> <<>>, fin |-> FALSE]]

\* T::update_blocks(&mut self, blocks)
CoreUpdateBlocks(core, blocks) == [core EXCEPT !.blocks = @ \o blocks]

RECURSIVE Flatten(_)
Flatten(bs) == IF bs = <<>> THEN <<>> ELSE Head(bs) \o Flatten(Tail(bs))

RECURSIVE Absorb(_, _)
Absorb(acc, m) == IF m = <<>> THEN acc ELSE Absorb((acc * 3 + Head(m) + 1) % 251, Tail(m))

\* byte i of the digest of message m by a core constructed for `size` bytes
OutByte(size, m, i) == (Absorb(0, m) * 7 + size * 3 + i) % 256

\* T::finalize_variable_core(&mut self, buffer, output_size, f): pads and
\* absorbs the buffered remainder and calls f once with output_size bytes
CoreFinalizeVariableCore(core, buffer, n) ==
    [core   |-> [core EXCEPT !.blocks = @ \o <<buffer>>, !.fin = TRUE],
     buffer |-> <<>>,
     sink   |-> << [i \in 1..n |-> OutByte(core.size, Flatten(core.blocks) \o buffer, i)] >>]

\* ------------------------------------------- the block buffer (collaborator)
\* BufferKind::invariant(pos, block_size) as used by digest_blocks
KindInvariant(n, rem) == IF kind = "Eager" THEN n < rem ELSE n <= rem

\* BufferKind::split_blocks
SplitBlocks(data) ==
    LET len == Len(data)
        nb == IF kind = "Eager" THEN len \div BlockSize
              ELSE IF len = 0 THEN 0
              ELSE IF len % BlockSize = 0 THEN (len \div BlockSize) - 1
              ELSE len \div BlockSize
    IN [blocks   |-> [i \in 1..nb |-> SubSeq(data, (i - 1) * BlockSize + 1, i * BlockSize)],
        leftover |-> SubSeq(data, nb * BlockSize + 1, len)]

\* BlockBuffer::digest_blocks(input, compress): `calls` are the block slices
\* compress is called with, in order
DigestBlocks(buffer, input) ==
    LET pos == Len(buffer)
        rem == BlockSize - pos
        n == Len(input)
    IN IF KindInvariant(n, rem)
       THEN [calls |-> <<>>, buffer |-> buffer \o input]
       ELSE LET first == IF pos # 0 THEN << <<buffer \o SubSeq(input, 1, rem)>> >> ELSE <<>>
                right == IF pos # 0 THEN SubSeq(input, rem + 1, n) ELSE input
                sp == SplitBlocks(right)
                second == IF sp.blocks # <<>> THEN <<sp.blocks>> ELSE <<>>
            IN [calls |-> first \o second, buffer |-> sp.leftover]

\* mutant: only the first call of the closure reaches the core
CompressOnce(core, calls) ==
    IF calls = <<>> THEN core ELSE CoreUpdateBlocks(core, Head(calls))

RECURSIVE Compress(_, _)
\* the closure |blocks| core.update_blocks(blocks), once per call
Compress(core, calls) ==
    IF calls = <<>> THEN core ELSE Compress(CoreUpdateBlocks(core, Head(calls)), Tail(calls))

\* ------------------------------------------------------ RtVariableCoreWrapper
NoAdaptor == [st |-> "none", core |-> NoCore, buffer |-> <<>>, output_size |-> 0]

\* mutant: the result of T::new is not propagated, a failed construction
\* yields an adaptor around a default core
RtNewUnchecked(output_size) ==
    LET r == CoreNew(output_size)
    IN [ok |-> TRUE,
        a  |-> [st |-> "live", core |-> r.core, buffer |-> <<>>,
                output_size |-> output_size]]

\* mutant: the adaptor records T::MaxOutputSize instead of the requested size
RtNewWrongSize(output_size) ==
    LET r == CoreNew(output_size)
    IN IF r.ok
       THEN [ok |-> TRUE,
             a  |-> [st |-> "live", core |-> r.core, buffer |-> <<>>,
                     output_size |-> MaxOutputSize]]
       ELSE [ok |-> FALSE, a |-> NoAdaptor]

\* VariableOutput::new
RtNew(output_size) ==
    LET r == CoreNew(output_size)
    IN IF r.ok
       THEN [ok |-> TRUE,
             a  |-> [st |-> "live", core |-> r.core, buffer |-> <<>>,
                     output_size |-> output_size]]
       ELSE [ok |-> FALSE, a |-> NoAdaptor]

\* VariableOutput::output_size
OutputSize(a) == a.output_size

\* mutant: reset rebuilds the adaptor for T::MaxOutputSize
RtResetMaxSize(a, dbg) ==
    [panic |-> FALSE,
     a |-> [a EXCEPT !.core = CoreNew(MaxOutputSize).core, !.buffer = <<>>,
                     !.output_size = MaxOutputSize]]

\* mutant: reset leaves the buffer as it is
RtResetKeepsBuffer(a, dbg) ==
    LET r == CoreNew(a.output_size)
    IN IF r.ok
       THEN [panic |-> FALSE, a |-> [a EXCEPT !.core = r.core]]
       ELSE [panic |-> dbg, a |-> a]

\* Reset::reset; dbg: debug assertions are compiled in
RtReset(a, dbg) ==
    LET r == CoreNew(a.output_size)
    IN IF r.ok
       THEN [panic |-> FALSE, a |-> [a EXCEPT !.core = r.core, !.buffer = <<>>]]
       ELSE IF dbg
            THEN [panic |-> TRUE, a |-> a]
            ELSE [panic |-> FALSE, a |-> [a EXCEPT !.buffer = <<>>]]

\* mutant: the input is only buffered, full blocks are never handed to the core
RtUpdateNoFlush(a, input) == [a EXCEPT !.buffer = @ \o input]

\* mutant: each update starts from an empty buffer, the pending bytes are lost
RtUpdateNoCarry(a, input) ==
    LET d == DigestBlocks(<<>>, input)
    IN [a EXCEPT !.core = Compress(a.core, d.calls), !.buffer = d.buffer]

\* mutant: the pending bytes are handed to the core at once, as a short block
RtUpdateShortBlock(a, input) ==
    [a EXCEPT !.core = CoreUpdateBlocks(@, <<a.buffer \o input>>), !.buffer = <<>>]

\* Update::update
RtUpdate(a, input) ==
    LET d == DigestBlocks(a.buffer, input)
    IN [a EXCEPT !.core = Compress(a.core, d.calls), !.buffer = d.buffer]

\* mutant: the core is asked for T::MaxOutputSize bytes
RtFinalizeVariableFull(a) ==
    LET f == CoreFinalizeVariableCore(a.core, a.buffer, MaxOutputSize)
    IN [sink |-> f.sink, a |-> [NoAdaptor EXCEPT !.st = "moved"]]

\* VariableOutput::finalize_variable (consumes self)
RtFinalizeVariable(a) ==
    LET f == CoreFinalizeVariableCore(a.core, a.buffer, a.output_size)
    IN [sink |-> f.sink, a |-> [NoAdaptor EXCEPT !.st = "moved"]]

\* mutant: the adaptor is not reset after the output is delivered
RtFinalizeVariableResetNoReset(a, dbg) ==
    LET f == CoreFinalizeVariableCore(a.core, a.buffer, a.output_size)
    IN [sink |-> f.sink, panic |-> FALSE, a |-> [a EXCEPT !.core = f.core, !.buffer = f.buffer]]

\* mutant: the adaptor is reset first and the output is computed afterwards
RtFinalizeVariableResetEarly(a, dbg) ==
    LET r == RtReset(a, dbg)
        f == CoreFinalizeVariableCore(r.a.core, r.a.buffer, a.output_size)
    IN [sink |-> f.sink, panic |-> r.panic, a |-> r.a]

\* VariableOutput::finalize_variable_reset
RtFinalizeVariableReset(a, dbg) ==
    LET f == CoreFinalizeVariableCore(a.core, a.buffer, a.output_size)
        r == RtReset([a EXCEPT !.core = f.core, !.buffer = f.buffer], dbg)
    IN [sink |-> f.sink, panic |-> r.panic, a |-> r.a]

\* mutant: the clone starts with an empty buffer
RtCloneFreshBuffer(a) ==
    [st |-> a.st, core |-> a.core, buffer |-> <<>>, output_size |-> a.output_size]

\* #[derive(Clone)]
RtClone(a) == [st |-> a.st, core |-> a.core, buffer |-> a.buffer, output_size |-> a.output_size]

\* T::write_alg_name(f): an associated function, it has no access to a value
AlgName == "Alg"

\* what Debug::fmt writes, one entry per write to the formatter
DebugWrites == <<AlgName, " { .. }">>

\* mutant: the output size is printed after the algorithm name
RtFmtLeaky(a, cap) ==
    LET w == <<AlgName, " { output_size: ", ToString(a.output_size), " }">>
    IN [ok |-> cap >= Len(w), text |-> SubSeq(w, 1, IF cap < Len(w) THEN cap ELSE Len(w))]

\* fmt::Debug::fmt; cap: the number of writes the formatter's sink accepts
\* before it reports fmt::Error, which `?` propagates
RtFmt(a, cap) ==
    LET w == DebugWrites
    IN [ok |-> cap >= Len(w), text |-> SubSeq(w, 1, IF cap < Len(w) THEN cap ELSE Len(w))]

\* mutant: a short write, only the first byte is consumed
RtWriteShort(a, buf) ==
    LET head == IF buf = <<>> THEN <<>> ELSE <<Head(buf)>>
    IN [ok |-> TRUE, n |-> Len(head), a |-> RtUpdate(a, head)]

\* io::Write::write
RtWrite(a, buf) == [ok |-> TRUE, n |-> Len(buf), a |-> RtUpdate(a, buf)]

\* io::Write::flush
RtFlush(a) == [ok |-> TRUE, a |-> a]

\* ------------------------------------------------------------- operations
\* op: the operation; slot: the adaptor it acted on (0: the compile-time one);
\* res: "ok", "InvalidOutputSize" or "panic"; sink: what the sink (or the
\* output buffer) received, one entry per call; arg: the requested size (new,
\* default) or the target slot (clone).  An operation that ends a message
\* (reset, finalize) also records the adaptor as it was before: size (its
\* output length), msg, nupd and fork
NoLast ==
    [op |-> "init", slot |-> 0, res |-> "ok", sink |-> <<>>, arg |-> 0,
     size |-> 0, msg |-> <<>>, nupd |-> 0, fork |-> -1]

RtOp(name, s, res, sink, arg, ends) ==
    [op |-> name, slot |-> s, res |-> res, sink |-> sink, arg |-> arg,
     size |-> IF ends THEN rt[s].output_size ELSE 0,
     msg  |-> IF ends THEN msg[s] ELSE <<>>,
     nupd |-> IF ends THEN nupd[s] ELSE 0,
     fork |-> IF ends THEN fork[s] ELSE -1]

CtOp(name, res, sink, arg, ends) ==
    [op |-> name, slot |-> 0, res |-> res, sink |-> sink, arg |-> arg,
     size |-> IF ends THEN ct.out_size ELSE 0,
     msg  |-> IF ends THEN ctmsg ELSE <<>>,
     nupd |-> 0, fork |-> -1]

New(s, k) ==
    /\ rt[s].st = "none"
    /\ LET r == RtNew(k)
       IN /\ rt' = [rt EXCEPT ![s] = r.a]
          /\ last' = RtOp("new", s, IF r.ok THEN "ok" ELSE "InvalidOutputSize", <<>>, k, FALSE)
    /\ msg' = [msg EXCEPT ![s] = <<>>]
    /\ nupd' = [nupd EXCEPT ![s] = 0]
    /\ fork' = [fork EXCEPT ![s] = -1]
    /\ UNCHANGED <<kind, rejected, ct, ctmsg>>

Update(s, input, limit) ==
    /\ rt[s].st = "live"
    /\ Len(msg[s]) + Len(input) <= limit
    /\ rt' = [rt EXCEPT ![s] = RtUpdate(@, input)]
    /\ msg' = [msg EXCEPT ![s] = @ \o input]
    /\ nupd' = [nupd EXCEPT ![s] = IF @ < 2 THEN @ + 1 ELSE @]
    /\ last' = RtOp("update", s, "ok", <<>>, 0, FALSE)
    /\ UNCHANGED <<kind, rejected, ct, ctmsg, fork>>

Reset(s) ==
    /\ rt[s].st = "live"
    /\ \E dbg \in BOOLEAN :
         LET r == RtReset(rt[s], dbg)
         IN /\ rt' = [rt EXCEPT ![s] = r.a]
            /\ last' = RtOp("reset", s, IF r.panic THEN "panic" ELSE "ok", <<>>, 0, TRUE)
    /\ msg' = [msg EXCEPT ![s] = <<>>]
    /\ nupd' = [nupd EXCEPT ![s] = 0]
    /\ fork' = [fork EXCEPT ![s] = IF @ < 0 THEN @ ELSE 0]
    /\ UNCHANGED <<kind, rejected, ct, ctmsg>>

FinalizeVariable(s) ==
    /\ rt[s].st = "live"
    /\ LET r == RtFinalizeVariable(rt[s])
       IN /\ rt' = [rt EXCEPT ![s] = r.a]
          /\ last' = RtOp("finalize_variable", s, "ok", r.sink, 0, TRUE)
    /\ msg' = [msg EXCEPT ![s] = <<>>]
    /\ nupd' = [nupd EXCEPT ![s] = 0]
    /\ fork' = [fork EXCEPT ![s] = IF @ < 0 THEN @ ELSE 0]
    /\ UNCHANGED <<kind, rejected, ct, ctmsg>>

FinalizeVariableReset(s) ==
    /\ rt[s].st = "live"
    /\ \E dbg \in BOOLEAN :
         LET r == RtFinalizeVariableReset(rt[s], dbg)
         IN /\ rt' = [rt EXCEPT ![s] = r.a]
            /\ last' = RtOp("finalize_variable_reset", s,
                            IF r.panic THEN "panic" ELSE "ok", r.sink, 0, TRUE)
    /\ msg' = [msg EXCEPT ![s] = <<>>]
    /\ nupd' = [nupd EXCEPT ![s] = 0]
    /\ fork' = [fork EXCEPT ![s] = IF @ < 0 THEN @ ELSE 0]
    /\ UNCHANGED <<kind, rejected, ct, ctmsg>>

\* the adaptor goes out of scope
Drop(s) ==
    /\ rt[s].st # "none"
    /\ rt' = [rt EXCEPT ![s] = NoAdaptor]
    /\ msg' = [msg EXCEPT ![s] = <<>>]
    /\ nupd' = [nupd EXCEPT ![s] = 0]
    /\ last' = RtOp("drop", s, "ok", <<>>, 0, FALSE)
    /\ fork' = [fork EXCEPT ![s] = -1]
    /\ UNCHANGED <<kind, rejected, ct, ctmsg>>

\* let clone = original.clone()
Clone(s, t) ==
    /\ s # t
    /\ rt[s].st = "live"
    /\ rt[t].st = "none"
    /\ rt' = [rt EXCEPT ![t] = RtClone(rt[s])]
    /\ msg' = [msg EXCEPT ![t] = msg[s]]
    /\ nupd' = [nupd EXCEPT ![t] = nupd[s]]
    /\ fork' = [fork EXCEPT ![s] = Len(msg[s]), ![t] = Len(msg[s])]
    /\ last' = RtOp("clone", s, "ok", <<>>, t, FALSE)
    /\ UNCHANGED <<kind, rejected, ct, ctmsg>>

\* format!("{:?}", adaptor), or {:?} into a sink that may fail
Fmt(s, cap) ==
    /\ rt[s].st = "live"
    /\ LET r == RtFmt(rt[s], cap)
       IN last' = RtOp("fmt", s, IF r.ok THEN "ok" ELSE "fmt::Error", r.text, 0, FALSE)
    /\ UNCHANGED <<kind, rejected, rt, msg, nupd, ct, ctmsg, fork>>

\* adaptor.write(buf); arg: the byte count that Ok carries
Write(s, input, limit) ==
    /\ rt[s].st = "live"
    /\ Len(msg[s]) + Len(input) <= limit
    /\ LET r == RtWrite(rt[s], input)
       IN /\ rt' = [rt EXCEPT ![s] = r.a]
          /\ last' = RtOp("write", s, IF r.ok THEN "ok" ELSE "io::Error", <<>>, r.n, FALSE)
    /\ msg' = [msg EXCEPT ![s] = @ \o input]
    /\ nupd' = [nupd EXCEPT ![s] = IF @ < 2 THEN @ + 1 ELSE @]
    /\ UNCHANGED <<kind, rejected, ct, ctmsg, fork>>

\* adaptor.flush()
Flush(s) ==
    /\ rt[s].st = "live"
    /\ LET r == RtFlush(rt[s])
       IN /\ rt' = [rt EXCEPT ![s] = r.a]
          /\ last' = RtOp("flush", s, IF r.ok THEN "ok" ELSE "io::Error", <<>>, 0, FALSE)
    /\ UNCHANGED <<kind, rejected, msg, nupd, ct, ctmsg, fork>>

\* ------------------------------------------------------ CtVariableCoreWrapper
\* st: "none", "live", "moved" (finalized by value) or "panicked"; out_size is
\* the type parameter OutSize; buffer is the block buffer of the driver that
\* owns the adaptor
NoCt == [st |-> "none", out_size |-> 0, inner |-> NoCore, buffer |-> <<>>]

\* the type bound OutSize: IsLessOrEqual<T::MaxOutputSize>
OutSizes == 0..MaxOutputSize

\* Default::default
CtDefault(out_size) ==
    LET r == CoreNew(out_size)
    IN IF r.ok
       THEN [st |-> "live", out_size |-> out_size, inner |-> r.core, buffer |-> <<>>]
       ELSE [NoCt EXCEPT !.st = "panicked", !.out_size = out_size]

\* mutant: only the first block of the slice is forwarded
CtUpdateBlocksFirst(c, blocks) ==
    [c EXCEPT !.inner = CoreUpdateBlocks(@, IF blocks = <<>> THEN <<>> ELSE <<Head(blocks)>>)]

\* UpdateCore::update_blocks
CtUpdateBlocks(c, blocks) == [c EXCEPT !.inner = CoreUpdateBlocks(@, blocks)]

\* FixedOutputCore::finalize_fixed_core(buffer, out): out has OutSize bytes
CtFinalizeFixedCore(c, buffer) ==
    LET f == CoreFinalizeVariableCore(c.inner, buffer, c.out_size)
    IN [out |-> f.sink[1], c |-> [c EXCEPT !.inner = f.core, !.buffer = f.buffer]]

\* mutant: reset leaves the adaptor as it is
CtResetKeeps(c) == c

\* Reset::reset: *self = Default::default()
CtReset(c) == CtDefault(c.out_size)

RECURSIVE CtCompress(_, _)
\* the driver's closure |blocks| core.update_blocks(blocks), once per call
CtCompress(c, calls) ==
    IF calls = <<>> THEN c ELSE CtCompress(CtUpdateBlocks(c, Head(calls)), Tail(calls))

\* the driver constructs its core by Default and an empty buffer
CtConstruct(n) ==
    /\ ct.st = "none"
    /\ ct' = CtDefault(n)
    /\ ctmsg' = <<>>
    /\ last' = CtOp("ct_default", IF ct'.st = "panicked" THEN "panic" ELSE "ok", <<>>, n, FALSE)
    /\ UNCHANGED <<kind, rejected, rt, msg, nupd, fork>>

\* the driver's update: buffer.digest_blocks(input, |b| core.update_blocks(b))
CtUpdate(input) ==
    /\ ct.st = "live"
    /\ Len(ctmsg) + Len(input) <= MaxMsg
    /\ LET d == DigestBlocks(ct.buffer, input)
       IN ct' = [CtCompress(ct, d.calls) EXCEPT !.buffer = d.buffer]
    /\ ctmsg' = ctmsg \o input
    /\ last' = CtOp("ct_update", "ok", <<>>, 0, FALSE)
    /\ UNCHANGED <<kind, rejected, rt, msg, nupd, fork>>

\* the driver's finalize_fixed: core.finalize_fixed_core(&mut buffer, out)
CtFinalizeFixed ==
    /\ ct.st = "live"
    /\ LET r == CtFinalizeFixedCore(ct, ct.buffer)
       IN /\ ct' = [NoCt EXCEPT !.st = "moved", !.out_size = ct.out_size]
          /\ last' = CtOp("ct_finalize_fixed", "ok", <<r.out>>, 0, TRUE)
    /\ ctmsg' = <<>>
    /\ UNCHANGED <<kind, rejected, rt, msg, nupd, fork>>

\* the driver's reset: core.reset(); buffer.reset()
CtResetOp ==
    /\ ct.st = "live"
    /\ ct' = CtReset(ct)
    /\ ctmsg' = <<>>
    /\ last' = CtOp("ct_reset", IF ct'.st = "panicked" THEN "panic" ELSE "ok", <<>>, 0, TRUE)
    /\ UNCHANGED <<kind, rejected, rt, msg, nupd, fork>>

\* the driver goes out of scope (or the panic has unwound)
CtDrop ==
    /\ ct.st # "none"
    /\ ct' = NoCt
    /\ ctmsg' = <<>>
    /\ last' = CtOp("ct_drop", "ok", <<>>, 0, FALSE)
    /\ UNCHANGED <<kind, rejected, rt, msg, nupd, fork>>

Init ==
    /\ kind \in BufferKinds
    /\ rejected \in (SUBSET (1..MaxOutputSize)) \ {1..MaxOutputSize}
    /\ rt = [s \in Slots |-> NoAdaptor]
    /\ msg = [s \in Slots |-> <<>>]
    /\ nupd = [s \in Slots |-> 0]
    /\ ct = NoCt
    /\ ctmsg = <<>>
    /\ fork = [s \in Slots |-> -1]
    /\ last = NoLast

\* one runtime adaptor
Next ==
    \/ \E k \in 0..(MaxOutputSize + 1) : New(1, k)
    \/ \E input \in Strings(MaxMsg) : Update(1, input, MaxMsg)
    \/ Reset(1)
    \/ FinalizeVariable(1)
    \/ FinalizeVariableReset(1)
    \/ Drop(1)

Spec == Init /\ [][Next]_vars

\* two runtime adaptors: one is constructed and the other is its clone
NextClone ==
    \/ \E k \in 1..MaxOutputSize : New(1, k)
    \/ \E s \in Slots, input \in Strings(MaxMsgClone) : Update(s, input, MaxMsgClone)
    \/ \E s \in Slots : Reset(s)
    \/ \E s \in Slots : FinalizeVariable(s)
    \/ \E s \in Slots : FinalizeVariableReset(s)
    \/ \E s, t \in Slots : Clone(s, t)

\* cloning does not construct a core: the algorithm here accepts every size
InitClone == Init /\ rejected = {}

SpecClone == InitClone /\ [][NextClone]_vars

\* the compile-time adaptor under its driver
NextCt ==
    \/ \E n \in OutSizes : CtConstruct(n)
    \/ \E input \in Strings(MaxMsg) : CtUpdate(input)
    \/ CtFinalizeFixed
    \/ CtResetOp
    \/ CtDrop

SpecCt == Init /\ [][NextCt]_vars

\* a program that uses one adaptor at a time, of either kind
NextBoth ==
    \/ ct.st = "none" /\ Next
    \/ rt[1].st = "none" /\ NextCt

SpecBoth == Init /\ [][NextBoth]_vars

\* an incorrect core implementation: T::new starts to fail for a size it
\* accepted when a live adaptor was constructed with it
CoreMisbehaves(k) ==
    /\ k \notin rejected
    /\ \E s \in Slots : rt[s].st = "live" /\ rt[s].output_size = k
    /\ rejected' = rejected \cup {k}
    /\ last' = [NoLast EXCEPT !.op = "core_fault", !.arg = k]
    /\ UNCHANGED <<kind, rt, msg, nupd, ct, ctmsg, fork>>

\* the core, which a failed reset retains, is followed while it holds no more
\* than the bytes of one message
StaleBound ==
    /\ Len(Flatten(rt'[1].core.blocks)) <= MaxMsgClone
    /\ Len(rt'[1].core.blocks) <= (MaxMsgClone \div BlockSize) + 1

\* one runtime adaptor over a core implementation that may be incorrect
NextFaulty ==
    \/ \E k \in 0..(MaxOutputSize + 1) : New(1, k)
    \/ \E input \in Strings(MaxMsgClone) : Update(1, input, MaxMsgClone) /\ StaleBound
    \/ Reset(1)
    \/ FinalizeVariable(1)
    \/ FinalizeVariableReset(1) /\ StaleBound
    \/ Drop(1)
    \/ \E k \in 1..MaxOutputSize : CoreMisbehaves(k)

SpecFaulty == Init /\ [][NextFaulty]_vars

\* one runtime adaptor that is also used as an io::Write sink and formatted
NextIo ==
    \/ Next
    \/ \E input \in Strings(MaxMsg) : Write(1, input, MaxMsg)
    \/ Flush(1)
    \/ \E cap \in 0..Len(DebugWrites) : Fmt(1, cap)

SpecIo == Init /\ [][NextIo]_vars

\* ------------------------------------------------------------------ claims
Finalizes == {"finalize_variable", "finalize_variable_reset"}
Resets == {"reset", "finalize_variable_reset"}

\* what the sink receives from a freshly constructed runtime adaptor of output
\* length k that is fed s in a single update call and finalized
OneShot(k, s) == RtFinalizeVariable(RtUpdate(RtNew(k).a, s)).sink

\* C1: chunk-invariance.  Whatever the sequence of update calls (empty chunks
\* included) that fed a message to a runtime adaptor, finalizing delivers the
\* bytes a fresh adaptor of the same output length delivers after a single
\* update with the whole message.
ChunkInvariance ==
    last.op \in Finalizes => last.sink = OneShot(last.size, last.msg)

\* a message of more than one block, fed in two or more update calls, finalized
ChunkInvarianceWitness ==
    /\ last.op = "finalize_variable"
    /\ last.nupd = 2
    /\ Len(last.msg) > BlockSize
    /\ Len(last.msg) % BlockSize # 0

\* C2 as stated: new(0) and new(MaxOutputSize + 1) fail with InvalidOutputSize
\* and make no adaptor; new(k) succeeds for every 1 <= k <= MaxOutputSize, with
\* an empty buffer and output_size() = k.
ConstructionValidationAsStated ==
    last.op = "new" =>
        /\ last.arg \in {0, MaxOutputSize + 1} =>
              last.res = "InvalidOutputSize" /\ rt[last.slot].st = "none"
        /\ last.arg \in 1..MaxOutputSize =>
              /\ last.res = "ok"
              /\ rt[last.slot].st = "live"
              /\ rt[last.slot].buffer = <<>>
              /\ OutputSize(rt[last.slot]) = last.arg

\* C2, amended: new(k) fails with InvalidOutputSize and makes no adaptor
\* exactly when the core's own construction rejects k, which it does for 0,
\* for MaxOutputSize + 1 and for the sizes the algorithm does not support;
\* for every other k in 1..MaxOutputSize it succeeds, with an empty buffer and
\* output_size() = k.
ConstructionValidation ==
    last.op = "new" =>
        /\ last.arg \in {0, MaxOutputSize + 1} \cup rejected =>
              last.res = "InvalidOutputSize" /\ rt[last.slot].st = "none"
        /\ last.arg \in (1..MaxOutputSize) \ rejected =>
              /\ last.res = "ok"
              /\ rt[last.slot].st = "live"
              /\ rt[last.slot].buffer = <<>>
              /\ rt[last.slot].core = CoreNew(last.arg).core
              /\ OutputSize(rt[last.slot]) = last.arg

\* a construction that succeeded although the algorithm rejects another size
ConstructionValidationWitness ==
    /\ last.op = "new"
    /\ last.res = "ok"
    /\ last.arg = MaxOutputSize
    /\ rejected # {}


\* C3: output-length invariant.  A live runtime adaptor's stored output length
\* is in 1..MaxOutputSize; construction stores the requested length, a clone
\* has its original's, and no update, reset, finalize or clone step changes
\* the length of an adaptor that stays alive.
OutputLengthRange ==
    \A s \in Slots : rt[s].st = "live" => 0 < OutputSize(rt[s]) /\ OutputSize(rt[s]) <= MaxOutputSize

OutputLengthStep ==
    /\ \A s \in Slots :
         rt[s].st = "live" /\ rt'[s].st = "live" => OutputSize(rt'[s]) = OutputSize(rt[s])
    /\ last'.op = "new" /\ last'.res = "ok" => OutputSize(rt'[last'.slot]) = last'.arg
    /\ last'.op = "clone" => OutputSize(rt'[last'.arg]) = OutputSize(rt[last'.slot])

OutputLengthInvariant == []OutputLengthRange /\ [][OutputLengthStep]_vars

\* a clone that has been fed and reset still has the smallest length
OutputLengthWitness ==
    /\ last.op = "finalize_variable_reset"
    /\ last.fork >= 0
    /\ last.msg # <<>>
    /\ last.size = 1
    /\ OutputSize(rt[last.slot]) = 1

ResetEquivalence ==
    last.op \in Resets /\ last.res = "ok" =>
        /\ rt[last.slot].st = "live"
        /\ OutputSize(rt[last.slot]) = last.size
        /\ \A input \in Strings(MaxMsg) :
             RtFinalizeVariable(RtUpdate(rt[last.slot], input)).sink = OneShot(last.size, input)

\* a reset that discarded a message with absorbed blocks and pending bytes
ResetEquivalenceWitness ==
    /\ last.op = "reset"
    /\ last.res = "ok"
    /\ Len(last.msg) = BlockSize + 1
    /\ rt[last.slot].st = "live"

\* C6: clone independence.  A step on one adaptor leaves every other adaptor
\* (its core, buffer and output length) as it was, a clone step changing only
\* the slot that receives the copy; and finalizing an adaptor that is a clone
\* or has been cloned delivers the digest of a fresh adaptor fed the branch's
\* whole input, the bytes from before the clone followed by its own.
CloneFrame ==
    \A t \in Slots :
        t # last'.slot /\ ~(last'.op = "clone" /\ last'.arg = t) => rt'[t] = rt[t]

CloneCopies ==
    last'.op = "clone" =>
        /\ rt'[last'.arg].core = rt[last'.slot].core
        /\ rt'[last'.arg].buffer = rt[last'.slot].buffer
        /\ OutputSize(rt'[last'.arg]) = OutputSize(rt[last'.slot])
        /\ rt'[last'.slot] = rt[last'.slot]

CloneDigest ==
    last.op \in Finalizes /\ last.fork >= 0 => last.sink = OneShot(last.size, last.msg)

CloneIndependence == []CloneDigest /\ [][CloneFrame /\ CloneCopies]_vars

\* one branch is finalized after bytes of its own while the other branch,
\* sharing the bytes from before the clone, holds a different message
CloneIndependenceWitness ==
    /\ last.op = "finalize_variable"
    /\ last.fork >= 1
    /\ Len(last.msg) > last.fork
    /\ \E t \in Slots :
         /\ t # last.slot
         /\ rt[t].st = "live"
         /\ fork[t] = last.fork
         /\ Len(msg[t]) > fork[t]
         /\ msg[t] # last.msg
         /\ SubSeq(msg[t], 1, fork[t]) = SubSeq(last.msg, 1, last.fork)

\* C7: single error surface.  InvalidOutputSize comes from new alone, and no
\* update, reset, finalize_variable or finalize_variable_reset of a constructed
\* adaptor reports an error or panics.
SingleErrorSurface ==
    /\ last.res = "InvalidOutputSize" => last.op = "new"
    /\ last.op \in {"update", "reset", "finalize_variable", "finalize_variable_reset"} =>
         last.res = "ok"

\* a finalize-and-reset that succeeded under an algorithm that rejects a size
SingleErrorSurfaceWitness ==
    /\ last.op = "finalize_variable_reset"
    /\ last.res = "ok"
    /\ last.msg # <<>>
    /\ rejected # {}

\* C8: default() and reset() of the compile-time adaptor never fail, for every
\* OutSize the type bound OutSize <= MaxOutputSize admits.
CtConstructionNeverFails ==
    last.op \in {"ct_default", "ct_reset"} => last.res = "ok" /\ ct.st = "live"

Empty(a) == a.st = "live" /\ a.buffer = <<>> /\ a.core = CoreNew(a.output_size).core

Accumulating(a) == a.st = "live" /\ ~Empty(a)

LifecycleState ==
    /\ last.op = "finalize_variable" => rt[last.slot].st = "moved" /\ Len(last.sink) = 1
    /\ last.op = "finalize_variable_reset" =>
         Empty(rt[last.slot]) /\ OutputSize(rt[last.slot]) = last.size

LifecycleStep ==
    \A s \in Slots :
        /\ Empty(rt[s]) /\ Accumulating(rt'[s]) => last'.op = "update" /\ last'.slot = s
        /\ rt[s].st = "moved" =>
             /\ rt'[s].st \in {"moved", "none"}
             /\ last'.slot = s => last'.op = "drop"

Lifecycle == []LifecycleState /\ [][LifecycleStep]_vars

\* an adaptor that accumulated more than a block is back in Empty
LifecycleWitness ==
    /\ last.op = "finalize_variable_reset"
    /\ Len(last.msg) > BlockSize
    /\ Empty(rt[last.slot])
    /\ msg[last.slot] = <<>>


ByteStreamConservation ==
    \A s \in Slots :
        rt[s].st = "live" =>
            /\ Flatten(rt[s].core.blocks) \o rt[s].buffer = msg[s]
            /\ \A i \in 1..Len(rt[s].core.blocks) : Len(rt[s].core.blocks[i]) = BlockSize

\* two update calls have handed over a block and left a remainder
ByteStreamConservationWitness ==
    /\ last.op = "update"
    /\ nupd[1] = 2
    /\ rt[1].st = "live"
    /\ Len(rt[1].core.blocks) >= 1
    /\ rt[1].buffer # <<>>
    /\ Len(msg[1]) = MaxMsg


\* C13: loud reset failure.  When T::new fails inside reset (or inside the
\* reset of finalize_variable_reset) the operation aborts: it never returns
\* normally with the previous core retained.
LoudResetFailure ==
    last.op \in Resets /\ ~CoreNew(last.size).ok => last.res = "panic"

\* C17 as stated: reset always clears the buffer and leaves output_size as it
\* was, whether or not the core could be reconstructed, and changes nothing
\* but the core and the buffer.
ResetFrameAsStatedStep ==
    last'.op = "reset" =>
        /\ rt'[last'.slot].st = "live"
        /\ rt'[last'.slot].buffer = <<>>
        /\ OutputSize(rt'[last'.slot]) = OutputSize(rt[last'.slot])
        /\ \A t \in Slots \ {last'.slot} : rt'[t] = rt[t]

ResetFrameAsStated == [][ResetFrameAsStatedStep]_vars

\* C17, amended: reset leaves output_size as it was and changes nothing but
\* the core and the buffer; whenever it returns it has cleared the buffer,
\* whether or not the core could be reconstructed (the core is replaced if it
\* could and retained if not); in a build with debug assertions a failed
\* reconstruction panics before the buffer is cleared.
ResetFrameStep ==
    last'.op = "reset" =>
        LET s == last'.slot
            r == CoreNew(OutputSize(rt[s]))
        IN /\ rt'[s].st = "live"
           /\ OutputSize(rt'[s]) = OutputSize(rt[s])
           /\ last'.res = "ok" => rt'[s].buffer = <<>>
           /\ last'.res = "panic" => ~r.ok /\ rt'[s] = rt[s]
           /\ rt'[s].core = IF r.ok THEN r.core ELSE rt[s].core
           /\ \A t \in Slots \ {s} : rt'[t] = rt[t]

ResetFrame == [][ResetFrameStep]_vars

\* a reset returned although the core could not be reconstructed: the pending
\* bytes are gone, the blocks of the old message are still in the core
ResetFrameWitness ==
    /\ last.op = "reset"
    /\ last.res = "ok"
    /\ ~CoreNew(last.size).ok
    /\ Len(last.msg) % BlockSize # 0
    /\ rt[last.slot].buffer = <<>>
    /\ rt[last.slot].core.blocks # <<>>
    /\ OutputSize(rt[last.slot]) = last.size

\* the input of the update that has just been applied to runtime adaptor s
Delta(s) == SubSeq(msg'[s], Len(msg[s]) + 1, Len(msg'[s]))

\* the input of the update that has just been applied by the driver
CtDelta == SubSeq(ctmsg', Len(ctmsg) + 1, Len(ctmsg'))

\* C14: finalize_variable_reset hands to the sink exactly the bytes that
\* finalize_variable would hand over for the adaptor as it is before the call;
\* the reset that follows has no part in the output
DigestBeforeResetStep ==
    last'.op = "finalize_variable_reset" =>
        /\ rt[last'.slot].st = "live"
        /\ last'.sink = RtFinalizeVariable(rt[last'.slot]).sink
        /\ last'.sink = OneShot(last'.size, last'.msg)

DigestBeforeReset == [][DigestBeforeResetStep]_vars

DigestBeforeResetWitness ==
    /\ last.op = "finalize_variable_reset"
    /\ last.res = "ok"
    /\ last.nupd = 2
    /\ Len(last.msg) = MaxMsg - 1
    /\ last.sink = OneShot(last.size, last.msg)
    /\ last.sink # OneShot(last.size, <<>>)

\* C15: after reset the compile-time adaptor equals a default-constructed one
\* of the same OutSize, whatever blocks it has processed; an update changes it
\* only by the core's update_blocks on the blocks handed over, in order
CtResetIsDefault ==
    last.op = "ct_reset" => ct = CtDefault(last.size) /\ ct.out_size = last.size

CtUpdateStep ==
    last'.op = "ct_update" =>
        LET d == DigestBlocks(ct.buffer, CtDelta)
        IN /\ ct'.inner = Compress(ct.inner, d.calls)
           /\ ct'.inner.blocks = ct.inner.blocks \o Flatten(d.calls)
           /\ ct'.inner.size = ct.inner.size
           /\ ct'.out_size = ct.out_size
           /\ ct'.st = ct.st

CtResetAndUpdate == [](CtResetIsDefault) /\ [][CtUpdateStep]_vars

CtResetAndUpdateWitness ==
    /\ last.op = "ct_reset"
    /\ last.res = "ok"
    /\ Len(last.msg) > BlockSize
    /\ ct.st = "live"
    /\ ct.inner.blocks = <<>>
    /\ ct = CtDefault(last.size)

\* C18: an update whose input, with the bytes already pending, stays short of
\* a block (the empty input included) leaves the core and the output length
\* as they are and appends exactly the input to the buffer
ShortUpdateStep ==
    \A s \in Slots :
        (last'.op = "update" /\ last'.slot = s
            /\ Len(rt[s].buffer) + Len(Delta(s)) < BlockSize) =>
        /\ rt'[s].core = rt[s].core
        /\ OutputSize(rt'[s]) = OutputSize(rt[s])
        /\ rt'[s].st = rt[s].st
        /\ rt'[s].buffer = rt[s].buffer \o Delta(s)

ShortUpdate == [][ShortUpdateStep]_vars

ShortUpdateWitness ==
    /\ last.op = "update"
    /\ rt[1].st = "live"
    /\ nupd[1] = 2
    /\ rt[1].core.blocks = <<>>
    /\ rt[1].buffer = msg[1]
    /\ Len(rt[1].buffer) = BlockSize - 1

\* C16: the Debug text of a runtime adaptor is the algorithm name followed by
\* " { .. }" whatever the adaptor's core, buffer and output length are; when
\* the formatter's sink fails, what was written is a part of that text
OpaqueDebugText ==
    rt[1].st = "live" =>
        \A cap \in 0..Len(DebugWrites) :
            /\ RtFmt(rt[1], cap).text \in {<<>>, <<AlgName>>, <<AlgName, " { .. }">>}
            /\ RtFmt(rt[1], cap).text = RtFmt(RtNew(OutputSize(rt[1])).a, cap).text

OpaqueDebug ==
    /\ OpaqueDebugText
    /\ last.op = "fmt" =>
          /\ last.res = "ok" => last.sink = <<AlgName, " { .. }">>
          /\ last.sink \in {<<>>, <<AlgName>>, <<AlgName, " { .. }">>}

OpaqueDebugWitness ==
    /\ last.op = "fmt"
    /\ last.res = "ok"
    /\ last.sink = <<"Alg", " { .. }">>
    /\ rt[1].st = "live"
    /\ rt[1].core.blocks # <<>>
    /\ rt[1].buffer # <<>>
    /\ OutputSize(rt[1]) = MaxOutputSize

\* C19: write(buf) returns Ok(buf.len()) and leaves the adaptor as update(buf)
\* leaves it; flush() returns Ok(()) and changes nothing
WritePassThroughStep ==
    \A s \in Slots :
        /\ (last'.op = "write" /\ last'.slot = s) =>
              /\ last'.res = "ok"
              /\ last'.arg = Len(Delta(s))
              /\ rt'[s] = RtUpdate(rt[s], Delta(s))
        /\ (last'.op = "flush" /\ last'.slot = s) =>
              /\ last'.res = "ok"
              /\ rt' = rt
              /\ msg' = msg

WritePassThrough == [][WritePassThroughStep]_vars

WritePassThroughWitness ==
    /\ last.op = "write"
    /\ last.res = "ok"
    /\ last.arg = BlockSize + 1
    /\ rt[1].st = "live"
    /\ Len(msg[1]) = MaxMsg
    /\ rt[1].core.blocks # <<>>
    /\ Flatten(rt[1].core.blocks) \o rt[1].buffer = msg[1]

====
